---- MODULE Spec2Model ----
(***************************************************************************)
(* The CHIP-8 interpreter of src/src/emulator.rs as a state machine: the   *)
(* fields of struct Chip8, the loader Chip8::load and one action per       *)
(* branch of the decoder in Chip8::cycle.  A Rust panic is recorded in     *)
(* fault and stops the machine, with the state as the panic left it.       *)
(*                                                                         *)
(* The two large arrays are held by their non-default cells: memory        *)
(* ([u8; 4096]) is the finite map of its nonzero bytes and display         *)
(* ([bool; 2048]) is the set of its set cells.  Both encodings are exact   *)
(* and canonical (equal arrays have equal encodings); mem_get, mem_set,    *)
(* disp_get and disp_set are the array read and write.                     *)
(***************************************************************************)
EXTENDS Integers, Sequences, FiniteSets, TLC

(* ------------------------------------------------------------------ *)
(* Machine constants                                                  *)
(* ------------------------------------------------------------------ *)
DISPLAY_WIDTH == 64
DISPLAY_HEIGHT == 32
DISPLAY_SIZE == DISPLAY_WIDTH * DISPLAY_HEIGHT
MEMORY_SIZE == 4096
PROG_START == 512
PROG_END == 3744
SPRITE_COUNT == 16
SPRITE_START == 0
SPRITE_BYTE_WIDTH == 5
STACK_SIZE == 16

ALL_SPRITE_DATA ==
    << 240, 144, 144, 144, 240,
       32, 96, 32, 32, 112,
       240, 16, 240, 128, 240,
       240, 16, 240, 16, 240,
       144, 144, 240, 16, 16,
       240, 128, 240, 16, 240,
       240, 128, 240, 144, 240,
       240, 16, 32, 64, 64,
       240, 144, 240, 144, 240,
       240, 144, 240, 16, 240,
       240, 144, 240, 144, 144,
       224, 144, 224, 144, 224,
       240, 128, 128, 128, 240,
       224, 144, 144, 144, 224,
       240, 128, 240, 128, 240,
       240, 128, 240, 128, 128 >>

(* ------------------------------------------------------------------ *)
(* Fixed-width arithmetic and bit operations                          *)
(* ------------------------------------------------------------------ *)
RECURSIVE Pow2(_)
Pow2(n) == IF n = 0 THEN 1 ELSE 2 * Pow2(n - 1)

\* bit k (0 = least significant) of a
Bit(a, k) == (a \div Pow2(k)) % 2

RECURSIVE BitAnd(_, _)
BitAnd(a, b) ==
    IF a = 0 \/ b = 0 THEN 0
    ELSE (a % 2) * (b % 2) + 2 * BitAnd(a \div 2, b \div 2)

RECURSIVE BitOr(_, _)
BitOr(a, b) ==
    IF a = 0 THEN b
    ELSE IF b = 0 THEN a
    ELSE (IF a % 2 = 1 \/ b % 2 = 1 THEN 1 ELSE 0) + 2 * BitOr(a \div 2, b \div 2)

RECURSIVE BitXor(_, _)
BitXor(a, b) ==
    IF a = 0 THEN b
    ELSE IF b = 0 THEN a
    ELSE ((a + b) % 2) + 2 * BitXor(a \div 2, b \div 2)

\* u8::wrapping_add
\* (mutant) the sum stops at 255
wrapping_add_saturating(a, b) == IF a + b > 255 THEN 255 ELSE a + b

wrapping_add(a, b) == (a + b) % 256

\* (mutant) the carry is reported one too early
overflowing_add_early(a, b) == << (a + b) % 256, a + b >= 255 >>

\* u8::overflowing_add: <<wrapped value, did_overflow>>
overflowing_add(a, b) == << (a + b) % 256, a + b > 255 >>

\* (mutant) the flag says "no borrow" instead of "borrow"
overflowing_sub_no_borrow(a, b) == << (a - b + 256) % 256, a >= b >>

\* u8::overflowing_sub: <<wrapped value, did_overflow>>
overflowing_sub(a, b) == << (a - b + 256) % 256, a < b >>

\* (mutant) the subtraction wraps instead of failing
checked_sub_wrapping(a, b) == (a - b + 256) % 256

\* u8::checked_sub: -1 stands for None
checked_sub(a, b) == IF a >= b THEN a - b ELSE -1

(* ------------------------------------------------------------------ *)
(* State                                                              *)
(* ------------------------------------------------------------------ *)
VARIABLES
    reg_pc, reg_sp, reg_i, reg_timer_delay, reg_timer_sound, reg_v,
    stack, memory, keyboard, display,
    fault,      \* "none", or the message of the panic that stopped the machine
    last        \* the most recent call on the machine (load, cycle, or a call
                \* of the host) or pause of the host: its argument (the ROM)
                \* or the opcode it fetched, how it ended, and the frames it
                \* handed to the redraw callback, in order

vars == << reg_pc, reg_sp, reg_i, reg_timer_delay, reg_timer_sound, reg_v,
           stack, memory, keyboard, display, fault, last >>

\* everything Chip8 holds, as one value (for frame conditions)
machine == << reg_pc, reg_sp, reg_i, reg_timer_delay, reg_timer_sound, reg_v,
              stack, memory, keyboard, display >>

\* memory[a], for a inside the array
mem_get(mem, a) == IF a \in DOMAIN mem THEN mem[a] ELSE 0

\* memory[a] = byte, for a inside the array
mem_set(mem, a, byte) ==
    [b \in (IF byte = 0 THEN DOMAIN mem \ {a} ELSE DOMAIN mem \cup {a}) |->
        IF b = a THEN byte ELSE mem[b]]

\* display[index], for index inside the array
disp_get(disp, index) == index \in disp

\* display[index] = value, for index inside the array
disp_set(disp, index, value) == IF value THEN disp \cup {index} ELSE disp \ {index}

\* (mutant) the sprite data is written one byte too far up
initialize_memory_shifted ==
    [a \in { SPRITE_START + k : k \in { j \in 1..Len(ALL_SPRITE_DATA) :
                                            ALL_SPRITE_DATA[j] # 0 } } |->
        ALL_SPRITE_DATA[a - SPRITE_START]]

\* [0; 4096] with the sprite data written from SPRITE_START on
initialize_memory ==
    [a \in { SPRITE_START + k - 1 : k \in { j \in 1..Len(ALL_SPRITE_DATA) :
                                                ALL_SPRITE_DATA[j] # 0 } } |->
        ALL_SPRITE_DATA[a - SPRITE_START + 1]]

Init ==
    /\ reg_pc = PROG_START
    /\ reg_sp = 0
    /\ reg_i = 0
    /\ reg_timer_delay = 0
    /\ reg_timer_sound = 0
    /\ reg_v = [r \in 0..15 |-> 0]
    /\ stack = [k \in 0..(STACK_SIZE - 1) |-> 0]
    /\ memory = initialize_memory
    /\ keyboard = [k \in 0..15 |-> FALSE]
    /\ display = {}
    /\ fault = "none"
    /\ last = [call |-> "new", result |-> "Ok", data |-> << >>, opcode |-> -1, redraws |-> << >>]

(* ------------------------------------------------------------------ *)
(* Chip8::load                                                        *)
(* ------------------------------------------------------------------ *)
\* (mutant) the size test lets one byte too many through
load_fits_one_more(data) == ~(Len(data) > PROG_END - PROG_START + 1)

\* the size test of load: the ROM fits the program region
load_fits(data) == ~(Len(data) > PROG_END - PROG_START)

\* (mutant) the copy loop stops one byte early
load_copy_short(mem, data) ==
    LET written == { PROG_START + index : index \in 0..(Len(data) - 2) }
        nonzero == { a \in written : data[a - PROG_START + 1] # 0 }
    IN  [a \in (DOMAIN mem \ written) \cup nonzero |->
            IF a \in written THEN data[a - PROG_START + 1] ELSE mem[a]]

\* (mutant) the copy loop writes from address 0 on
load_copy_at_zero(mem, data) ==
    LET written == { index : index \in 0..(Len(data) - 1) }
        nonzero == { a \in written : data[a + 1] # 0 }
    IN  [a \in (DOMAIN mem \ written) \cup nonzero |->
            IF a \in written THEN data[a + 1] ELSE mem[a]]

\* the copy loop of load
load_copy(mem, data) ==
    LET written == { PROG_START + index : index \in 0..(Len(data) - 1) }
        nonzero == { a \in written : data[a - PROG_START + 1] # 0 }
    IN  [a \in (DOMAIN mem \ written) \cup nonzero |->
            IF a \in written THEN data[a - PROG_START + 1] ELSE mem[a]]

\* (mutant) load also blanks the screen
load_resets(data) ==
    /\ fault = "none"
    /\ memory' = IF load_fits(data) THEN load_copy(memory, data) ELSE memory
    /\ display' = {}
    /\ last' = [call |-> "load", result |-> IF load_fits(data) THEN "Ok" ELSE "Err",
                data |-> data, opcode |-> -1, redraws |-> << >>]
    /\ UNCHANGED << reg_pc, reg_sp, reg_i, reg_timer_delay, reg_timer_sound,
                    reg_v, stack, keyboard, fault >>

load(data) ==
    /\ fault = "none"
    /\ IF load_fits(data)
       THEN /\ memory' = load_copy(memory, data)
            /\ last' = [call |-> "load", result |-> "Ok", data |-> data,
                        opcode |-> -1, redraws |-> << >>]
       ELSE /\ memory' = memory
            /\ last' = [call |-> "load", result |-> "Err", data |-> data,
                        opcode |-> -1, redraws |-> << >>]
    /\ UNCHANGED << reg_pc, reg_sp, reg_i, reg_timer_delay, reg_timer_sound,
                    reg_v, stack, keyboard, display, fault >>

(* ------------------------------------------------------------------ *)
(* Fetch and decode                                                   *)
(* ------------------------------------------------------------------ *)
\* both bytes of the instruction are inside memory
fetch_in_bounds(pc) == pc + 1 < MEMORY_SIZE

get_opcode(mem, pc) == mem_get(mem, pc) * 256 + mem_get(mem, pc + 1)

opcode == get_opcode(memory, reg_pc)

OpTop(op) == op \div 4096
OpX(op) == (op \div 256) % 16
OpY(op) == (op \div 16) % 16
OpN(op) == op % 16
OpNN(op) == op % 256
OpNNN(op) == op % 4096

\* opcode & 0xF000 == t << 12
MatchT(op, t) == OpTop(op) = t
\* opcode & 0xF00F == (t << 12) | n
MatchTN(op, t, n) == OpTop(op) = t /\ OpN(op) = n
\* opcode & 0xF0FF == (t << 12) | nn
MatchTNN(op, t, nn) == OpTop(op) = t /\ OpNN(op) = nn

\* the machine is alive and the fetch succeeds
Decoded == fault = "none" /\ fetch_in_bounds(reg_pc)

\* one completed or panicked cycle: every field of the machine after it
Step(pc, sp, i, td, ts, v, st, mem, disp, f, rd) ==
    /\ reg_pc' = pc
    /\ reg_sp' = sp
    /\ reg_i' = i
    /\ reg_timer_delay' = td
    /\ reg_timer_sound' = ts
    /\ reg_v' = v
    /\ stack' = st
    /\ memory' = mem
    /\ display' = disp
    /\ keyboard' = keyboard
    /\ fault' = f
    /\ last' = [call |-> "cycle", result |-> IF f = "none" THEN "Ok" ELSE "Panic",
                data |-> << >>,
                opcode |-> IF fetch_in_bounds(reg_pc) THEN opcode ELSE -1,
                redraws |-> rd]

\* a cycle that panics before it has written anything
Panic(msg) ==
    Step(reg_pc, reg_sp, reg_i, reg_timer_delay, reg_timer_sound, reg_v,
         stack, memory, display, msg, << >>)

\* a cycle that only changes PC
SetPc(pc) ==
    Step(pc, reg_sp, reg_i, reg_timer_delay, reg_timer_sound, reg_v,
         stack, memory, display, "none", << >>)

\* a cycle that changes the V registers and advances PC by 2
SetV(v) ==
    Step(reg_pc + 2, reg_sp, reg_i, reg_timer_delay, reg_timer_sound, v,
         stack, memory, display, "none", << >>)

\* the expect() calls of get_opcode
FetchFault ==
    /\ fault = "none"
    /\ ~fetch_in_bounds(reg_pc)
    /\ Panic(IF reg_pc >= MEMORY_SIZE THEN "The PC to not be OOB."
                                       ELSE "The PC + 1 to not be OOB.")

(* ------------------------------------------------------------------ *)
(* Chip8::cycle, one action per branch of the decoder                 *)
(* ------------------------------------------------------------------ *)
\* (mutant) the clear leaves PC on the instruction
Op00E0_no_advance ==
    /\ Decoded /\ opcode = 224
    /\ Step(reg_pc, reg_sp, reg_i, reg_timer_delay, reg_timer_sound, reg_v,
            stack, memory, {}, "none", << >>)

\* (mutant) the clear hands the blank screen to the redraw callback
Op00E0_redraws ==
    /\ Decoded /\ opcode = 224
    /\ Step(reg_pc + 2, reg_sp, reg_i, reg_timer_delay, reg_timer_sound, reg_v,
            stack, memory, {}, "none", << {} >>)

\* 0x00E0 (clear the screen)
Op00E0 ==
    /\ Decoded /\ opcode = 224
    /\ Step(reg_pc + 2, reg_sp, reg_i, reg_timer_delay, reg_timer_sound, reg_v,
            stack, memory, {}, "none", << >>)

\* 0x00EE (return from subroutine)
Op00EE ==
    /\ Decoded /\ opcode = 238
    /\ LET sp == checked_sub(reg_sp, 1)
       IN  IF sp = -1
           THEN Panic("Stack underflow.")
           ELSE IF sp >= STACK_SIZE      \* stack.get(sp) is None
           THEN Step(reg_pc, sp, reg_i, reg_timer_delay, reg_timer_sound,
                     reg_v, stack, memory, display, "Stack underflow.", << >>)
           ELSE Step(stack[sp] + 2, sp, reg_i, reg_timer_delay, reg_timer_sound,
                     reg_v, stack, memory, display, "none", << >>)

\* 0x1NNN (jump)
Op1NNN ==
    /\ Decoded /\ MatchT(opcode, 1)
    /\ SetPc(OpNNN(opcode))

\* (mutant) the call saves the address of the next instruction
Op2NNN_push_next ==
    /\ Decoded /\ MatchT(opcode, 2)
    /\ IF reg_sp >= STACK_SIZE
       THEN Panic("Stack overflow.")
       ELSE Step(OpNNN(opcode), reg_sp + 1, reg_i, reg_timer_delay, reg_timer_sound,
                 reg_v, [stack EXCEPT ![reg_sp] = reg_pc + 2], memory, display,
                 "none", << >>)

\* (mutant) a call on a full stack jumps without saving anything
Op2NNN_unchecked ==
    /\ Decoded /\ MatchT(opcode, 2)
    /\ IF reg_sp >= STACK_SIZE
       THEN SetPc(OpNNN(opcode))
       ELSE Step(OpNNN(opcode), reg_sp + 1, reg_i, reg_timer_delay, reg_timer_sound,
                 reg_v, [stack EXCEPT ![reg_sp] = reg_pc], memory, display, "none", << >>)

\* 0x2NNN (call subroutine)
Op2NNN ==
    /\ Decoded /\ MatchT(opcode, 2)
    /\ IF reg_sp >= STACK_SIZE
       THEN Panic("Stack overflow.")
       ELSE Step(OpNNN(opcode), reg_sp + 1, reg_i, reg_timer_delay, reg_timer_sound,
                 reg_v, [stack EXCEPT ![reg_sp] = reg_pc], memory, display, "none", << >>)

\* 0x3XNN (skip when vx = NN)
Op3XNN ==
    /\ Decoded /\ MatchT(opcode, 3)
    /\ SetPc(IF OpNN(opcode) = reg_v[OpX(opcode)] THEN reg_pc + 4 ELSE reg_pc + 2)

\* (mutant) the skip is taken when vx = NN
Op4XNN_equal ==
    /\ Decoded /\ MatchT(opcode, 4)
    /\ SetPc(IF OpNN(opcode) = reg_v[OpX(opcode)] THEN reg_pc + 4 ELSE reg_pc + 2)

\* 0x4XNN (skip when vx /= NN)
Op4XNN ==
    /\ Decoded /\ MatchT(opcode, 4)
    /\ SetPc(IF OpNN(opcode) # reg_v[OpX(opcode)] THEN reg_pc + 4 ELSE reg_pc + 2)

\* 0x5XY0 (skip when vx = vy)
Op5XY0 ==
    /\ Decoded /\ MatchTN(opcode, 5, 0)
    /\ SetPc(IF reg_v[OpX(opcode)] = reg_v[OpY(opcode)] THEN reg_pc + 4 ELSE reg_pc + 2)

\* 0x6XNN (vx := NN)
Op6XNN ==
    /\ Decoded /\ MatchT(opcode, 6)
    /\ SetV([reg_v EXCEPT ![OpX(opcode)] = OpNN(opcode)])

\* 0x7XNN (vx += NN)
Op7XNN ==
    /\ Decoded /\ MatchT(opcode, 7)
    /\ SetV([reg_v EXCEPT ![OpX(opcode)] = wrapping_add(reg_v[OpX(opcode)], OpNN(opcode))])

\* 0x8XY0 (vx := vy)
Op8XY0 ==
    /\ Decoded /\ MatchTN(opcode, 8, 0)
    /\ SetV([reg_v EXCEPT ![OpX(opcode)] = reg_v[OpY(opcode)]])

\* 0x8XY1 (vx |= vy)
Op8XY1 ==
    /\ Decoded /\ MatchTN(opcode, 8, 1)
    /\ SetV([reg_v EXCEPT ![OpX(opcode)] = BitOr(reg_v[OpX(opcode)], reg_v[OpY(opcode)])])

\* 0x8XY2 (vx &= vy)
Op8XY2 ==
    /\ Decoded /\ MatchTN(opcode, 8, 2)
    /\ SetV([reg_v EXCEPT ![OpX(opcode)] = BitAnd(reg_v[OpX(opcode)], reg_v[OpY(opcode)])])

\* 0x8XY3 (vx ^= vy)
Op8XY3 ==
    /\ Decoded /\ MatchTN(opcode, 8, 3)
    /\ SetV([reg_v EXCEPT ![OpX(opcode)] = BitXor(reg_v[OpX(opcode)], reg_v[OpY(opcode)])])

\* (mutant) the flag is written first and the result over it
WriteFlagThenResult(v, x, value, flag) ==
    [[v EXCEPT ![15] = flag] EXCEPT ![x] = value]

\* the two register writes of a flag-setting instruction, in program order:
\* reg_v[x] = value, then reg_v[15] = flag
WriteResultThenFlag(v, x, value, flag) ==
    [[v EXCEPT ![x] = value] EXCEPT ![15] = flag]

\* 0x8XY4 (vx += vy)
Op8XY4 ==
    /\ Decoded /\ MatchTN(opcode, 8, 4)
    /\ LET r == overflowing_add(reg_v[OpX(opcode)], reg_v[OpY(opcode)])
       IN  SetV(WriteResultThenFlag(reg_v, OpX(opcode), r[1], IF r[2] THEN 1 ELSE 0))

\* 0x8XY5 (vx -= vy)
Op8XY5 ==
    /\ Decoded /\ MatchTN(opcode, 8, 5)
    /\ LET r == overflowing_sub(reg_v[OpX(opcode)], reg_v[OpY(opcode)])
       IN  SetV(WriteResultThenFlag(reg_v, OpX(opcode), r[1], IF r[2] THEN 1 ELSE 0))

\* (mutant) the shift takes its operand from vx
Op8XY6_in_place ==
    /\ Decoded /\ MatchTN(opcode, 8, 6)
    /\ LET vx_value == reg_v[OpX(opcode)]
       IN  SetV(WriteResultThenFlag(reg_v, OpX(opcode), vx_value \div 2, BitAnd(vx_value, 1)))

\* 0x8XY6 (vx := vy >> 1)
Op8XY6 ==
    /\ Decoded /\ MatchTN(opcode, 8, 6)
    /\ LET vy_value == reg_v[OpY(opcode)]
       IN  SetV(WriteResultThenFlag(reg_v, OpX(opcode), vy_value \div 2, BitAnd(vy_value, 1)))

\* 0x8XY7 (vx := vy - vx)
Op8XY7 ==
    /\ Decoded /\ MatchTN(opcode, 8, 7)
    /\ LET r == overflowing_sub(reg_v[OpY(opcode)], reg_v[OpX(opcode)])
       IN  SetV(WriteResultThenFlag(reg_v, OpX(opcode), r[1], IF r[2] THEN 1 ELSE 0))

\* 0x8XYE (vx := vy << 1)
Op8XYE ==
    /\ Decoded /\ MatchTN(opcode, 8, 14)
    /\ LET vy_value == reg_v[OpY(opcode)]
       IN  SetV(WriteResultThenFlag(reg_v, OpX(opcode), (vy_value * 2) % 256,
                                    BitAnd(vy_value, 128)))

\* 0x9XY0 (skip when vx /= vy)
Op9XY0 ==
    /\ Decoded /\ MatchTN(opcode, 9, 0)
    /\ SetPc(IF reg_v[OpX(opcode)] # reg_v[OpY(opcode)] THEN reg_pc + 4 ELSE reg_pc + 2)

\* 0xANNN (i := NNN)
OpANNN ==
    /\ Decoded /\ MatchT(opcode, 10)
    /\ Step(reg_pc + 2, reg_sp, OpNNN(opcode), reg_timer_delay, reg_timer_sound,
            reg_v, stack, memory, display, "none", << >>)

\* (mutant) the target is reduced to 12 bits
OpBNNN_masked ==
    /\ Decoded /\ MatchT(opcode, 11)
    /\ SetPc((OpNNN(opcode) + reg_v[0]) % 4096)

\* 0xBNNN (jump0 NNN)
OpBNNN ==
    /\ Decoded /\ MatchT(opcode, 11)
    /\ SetPc(OpNNN(opcode) + reg_v[0])

\* 0xCXNN (vx := random NN)
OpCXNN ==
    /\ Decoded /\ MatchT(opcode, 12)
    /\ \E random \in 0..255 :
          SetV([reg_v EXCEPT ![OpX(opcode)] = BitAnd(random, OpNN(opcode))])

(* ------------------------------------------------------------------ *)
(* 0xDXYN (sprite vx vy N)                                            *)
(* ------------------------------------------------------------------ *)
\* the display cell of sprite pixel (row, col)
draw_index(vx_value, vy_value, row, col) ==
    DISPLAY_WIDTH * (vy_value + row) + vx_value + col

\* the sprite bit of column col of a sprite byte: byte & 2^(7 - col) != 0
sprite_bit(byte, col) == Bit(byte, 7 - col) = 1

\* (mutant) the sprite bit is XORed onto the cell
draw_pixel_xor(old, value) == old # value

\* the value a display cell takes from the draw
draw_pixel(old, value) == value

\* (mutant) VF reports a set sprite bit landing on a set pixel
draw_collides_overlap(old, value) == old /\ value

\* the test that sets VF: a set pixel is changed to unset
draw_collides(old, value) == old /\ ~value

\* The inner loop (for col in 0..8) of one sprite row, from column col on.
\* The result is the display, VF and the panic (if any) the loop ends with:
\* an index outside the display panics where it is used, and what was
\* written before stays written.
RECURSIVE draw_row(_, _, _, _, _, _, _)
draw_row(col, row, vx_value, vy_value, byte, disp, vf) ==
    LET index == draw_index(vx_value, vy_value, row, col)
        value == sprite_bit(byte, col)
        old == disp_get(disp, index)
    IN  IF col >= 8
        THEN [display |-> disp, vf |-> vf, fault |-> "none"]
        ELSE IF index >= DISPLAY_SIZE
        THEN [display |-> disp, vf |-> vf, fault |-> "index out of bounds: display"]
        ELSE draw_row(col + 1, row, vx_value, vy_value, byte,
                      disp_set(disp, index, draw_pixel(old, value)),
                      IF draw_collides(old, value) THEN 1 ELSE vf)

\* The outer loop (for row in 0..byte_count) from row on; the sprite byte
\* memory[i + row] is read inside the inner loop, so a row outside memory
\* panics at its first pixel.
RECURSIVE draw_loop(_, _, _, _, _, _, _, _)
draw_loop(row, byte_count, vx_value, vy_value, i, mem, disp, vf) ==
    IF row >= byte_count
    THEN [display |-> disp, vf |-> vf, fault |-> "none"]
    ELSE IF i + row >= MEMORY_SIZE
    THEN [display |-> disp, vf |-> vf, fault |-> "index out of bounds: memory"]
    ELSE LET r == draw_row(0, row, vx_value, vy_value, mem_get(mem, i + row), disp, vf)
         IN  IF r.fault # "none"
             THEN r
             ELSE draw_loop(row + 1, byte_count, vx_value, vy_value, i, mem,
                            r.display, r.vf)

OpDXYN ==
    /\ Decoded /\ MatchT(opcode, 13)
    /\ LET r == draw_loop(0, OpN(opcode), reg_v[OpX(opcode)], reg_v[OpY(opcode)],
                          reg_i, memory, display, 0)
           v == [reg_v EXCEPT ![15] = r.vf]
       IN  IF r.fault = "none"
           THEN Step(reg_pc + 2, reg_sp, reg_i, reg_timer_delay, reg_timer_sound,
                     v, stack, memory, r.display, "none", << r.display >>)
           ELSE Step(reg_pc, reg_sp, reg_i, reg_timer_delay, reg_timer_sound,
                     v, stack, memory, r.display, r.fault, << >>)

(* ------------------------------------------------------------------ *)
(* Keys, timers, index register, memory transfers                     *)
(* ------------------------------------------------------------------ *)
\* (mutant) the skip consumes the key it found pressed
OpEX9E_consumes ==
    /\ Decoded /\ MatchTNN(opcode, 14, 158)
    /\ LET key_index == reg_v[OpX(opcode)]
       IN  /\ key_index <= 15
           /\ reg_pc' = (IF keyboard[key_index] THEN reg_pc + 4 ELSE reg_pc + 2)
           /\ keyboard' = [keyboard EXCEPT ![key_index] = FALSE]
           /\ last' = [call |-> "cycle", result |-> "Ok", data |-> << >>,
                       opcode |-> opcode, redraws |-> << >>]
           /\ UNCHANGED << reg_sp, reg_i, reg_timer_delay, reg_timer_sound, reg_v,
                           stack, memory, display, fault >>

\* (mutant) the key number is reduced to its low 4 bits
OpEX9E_masked ==
    /\ Decoded /\ MatchTNN(opcode, 14, 158)
    /\ LET key_index == reg_v[OpX(opcode)] % 16
       IN  SetPc(IF keyboard[key_index] THEN reg_pc + 4 ELSE reg_pc + 2)

\* 0xEX9E (skip when key vx is pressed)
OpEX9E ==
    /\ Decoded /\ MatchTNN(opcode, 14, 158)
    /\ LET key_index == reg_v[OpX(opcode)]
       IN  IF key_index > 15
           THEN Panic("Keyboard index to be in bounds.")
           ELSE SetPc(IF keyboard[key_index] THEN reg_pc + 4 ELSE reg_pc + 2)

\* (mutant) a key number past 15 counts as a key that is not pressed
OpEXA1_unchecked_key ==
    /\ Decoded /\ MatchTNN(opcode, 14, 161)
    /\ LET key_index == reg_v[OpX(opcode)]
       IN  SetPc(IF key_index > 15 \/ ~keyboard[key_index] THEN reg_pc + 4 ELSE reg_pc + 2)

\* 0xEXA1 (skip when key vx is not pressed)
OpEXA1 ==
    /\ Decoded /\ MatchTNN(opcode, 14, 161)
    /\ LET key_index == reg_v[OpX(opcode)]
       IN  IF key_index > 15
           THEN Panic("Keyboard index to be in bounds.")
           ELSE SetPc(IF ~keyboard[key_index] THEN reg_pc + 4 ELSE reg_pc + 2)

\* 0xFX07 (vx := delay)
OpFX07 ==
    /\ Decoded /\ MatchTNN(opcode, 15, 7)
    /\ SetV([reg_v EXCEPT ![OpX(opcode)] = reg_timer_delay])

\* 0xFX0A: todo!("FX0A")
OpFX0A ==
    /\ Decoded /\ MatchTNN(opcode, 15, 10)
    /\ Panic("not yet implemented: FX0A")

\* 0xFX15 (delay := vx)
OpFX15 ==
    /\ Decoded /\ MatchTNN(opcode, 15, 21)
    /\ Step(reg_pc + 2, reg_sp, reg_i, reg_v[OpX(opcode)], reg_timer_sound,
            reg_v, stack, memory, display, "none", << >>)

\* 0xFX18 (buzzer := vx)
OpFX18 ==
    /\ Decoded /\ MatchTNN(opcode, 15, 24)
    /\ Step(reg_pc + 2, reg_sp, reg_i, reg_timer_delay, reg_v[OpX(opcode)],
            reg_v, stack, memory, display, "none", << >>)

\* u16 `+=`: the sum when it fits; past 65535 the build decides, a panic
\* (overflow checks on, -1 here) or the wrapped sum (overflow checks off)
u16_add(a, b) ==
    IF a + b < 65536 THEN {a + b} ELSE {-1, (a + b) % 65536}

\* 0xFX1E (i += vx)
OpFX1E ==
    /\ Decoded /\ MatchTNN(opcode, 15, 30)
    /\ \E sum \in u16_add(reg_i, reg_v[OpX(opcode)]) :
          IF sum = -1
          THEN Panic("attempt to add with overflow")
          ELSE Step(reg_pc + 2, reg_sp, sum, reg_timer_delay, reg_timer_sound,
                    reg_v, stack, memory, display, "none", << >>)

\* (mutant) the digit is reduced to its low 4 bits
OpFX29_masked ==
    /\ Decoded /\ MatchTNN(opcode, 15, 41)
    /\ LET value == reg_v[OpX(opcode)] % 16
       IN  Step(reg_pc + 2, reg_sp, SPRITE_START + value * SPRITE_BYTE_WIDTH,
                reg_timer_delay, reg_timer_sound, reg_v, stack, memory,
                display, "none", << >>)

\* 0xFX29 (i := hex vx)
OpFX29 ==
    /\ Decoded /\ MatchTNN(opcode, 15, 41)
    /\ LET value == reg_v[OpX(opcode)]
       IN  IF value > 15
           THEN Panic("Vx to be within the range 0-15.")
           ELSE Step(reg_pc + 2, reg_sp, SPRITE_START + value * SPRITE_BYTE_WIDTH,
                     reg_timer_delay, reg_timer_sound, reg_v, stack, memory,
                     display, "none", << >>)

\* memory[addr] = byte for each <<addr, byte>> of writes, in order; the first
\* address outside memory panics and the writes before it stay
RECURSIVE store_bytes(_, _)
store_bytes(mem, writes) ==
    IF writes = << >>
    THEN [memory |-> mem, fault |-> "none"]
    ELSE IF Head(writes)[1] >= MEMORY_SIZE
    THEN [memory |-> mem, fault |-> "index out of bounds: memory"]
    ELSE store_bytes(mem_set(mem, Head(writes)[1], Head(writes)[2]), Tail(writes))

\* (mutant) the tens digit is not reduced modulo 10
OpFX33_tens_unreduced ==
    /\ Decoded /\ MatchTNN(opcode, 15, 51)
    /\ LET value == reg_v[OpX(opcode)]
           r == store_bytes(memory, << << reg_i, value \div 100 >>,
                                       << reg_i + 1, value \div 10 >>,
                                       << reg_i + 2, value % 10 >> >>)
       IN  Step(IF r.fault = "none" THEN reg_pc + 2 ELSE reg_pc, reg_sp, reg_i,
                reg_timer_delay, reg_timer_sound, reg_v, stack, r.memory, display,
                r.fault, << >>)

\* 0xFX33 (bcd vx)
OpFX33 ==
    /\ Decoded /\ MatchTNN(opcode, 15, 51)
    /\ LET value == reg_v[OpX(opcode)]
           r == store_bytes(memory, << << reg_i, value \div 100 >>,
                                       << reg_i + 1, (value \div 10) % 10 >>,
                                       << reg_i + 2, value % 10 >> >>)
       IN  Step(IF r.fault = "none" THEN reg_pc + 2 ELSE reg_pc, reg_sp, reg_i,
                reg_timer_delay, reg_timer_sound, reg_v, stack, r.memory, display,
                r.fault, << >>)

\* (mutant) an address past the end of memory wraps to its start
RECURSIVE save_loop_wraps(_, _, _, _, _)
save_loop_wraps(index, max_index, v, mem, i) ==
    IF index > max_index
    THEN [memory |-> mem, reg_i |-> i, fault |-> "none"]
    ELSE save_loop_wraps(index + 1, max_index, v,
                         mem_set(mem, i % MEMORY_SIZE, v[index]), i + 1)

\* the loop of FX55 from register index on: memory[i] = reg_v[index]; i += 1
RECURSIVE save_loop(_, _, _, _, _)
save_loop(index, max_index, v, mem, i) ==
    IF index > max_index
    THEN [memory |-> mem, reg_i |-> i, fault |-> "none"]
    ELSE IF i >= MEMORY_SIZE
    THEN [memory |-> mem, reg_i |-> i, fault |-> "index out of bounds: memory"]
    ELSE save_loop(index + 1, max_index, v, mem_set(mem, i, v[index]), i + 1)

\* (mutant) the save leaves I where it was
OpFX55_keeps_i ==
    /\ Decoded /\ MatchTNN(opcode, 15, 85)
    /\ LET r == save_loop(0, OpX(opcode), reg_v, memory, reg_i)
       IN  Step(IF r.fault = "none" THEN reg_pc + 2 ELSE reg_pc, reg_sp, reg_i,
                reg_timer_delay, reg_timer_sound, reg_v, stack, r.memory, display,
                r.fault, << >>)

\* 0xFX55 (save vx)
OpFX55 ==
    /\ Decoded /\ MatchTNN(opcode, 15, 85)
    /\ LET r == save_loop(0, OpX(opcode), reg_v, memory, reg_i)
       IN  Step(IF r.fault = "none" THEN reg_pc + 2 ELSE reg_pc, reg_sp, r.reg_i,
                reg_timer_delay, reg_timer_sound, reg_v, stack, r.memory, display,
                r.fault, << >>)

\* the loop of FX65 from register index on: reg_v[index] = memory[i]; i += 1
RECURSIVE load_loop(_, _, _, _, _)
load_loop(index, max_index, v, mem, i) ==
    IF index > max_index
    THEN [reg_v |-> v, reg_i |-> i, fault |-> "none"]
    ELSE IF i >= MEMORY_SIZE
    THEN [reg_v |-> v, reg_i |-> i, fault |-> "V index to be in bounds."]
    ELSE load_loop(index + 1, max_index, [v EXCEPT ![index] = mem_get(mem, i)], mem, i + 1)

\* (mutant) the load stops one register short of VX
OpFX65_exclusive ==
    /\ Decoded /\ MatchTNN(opcode, 15, 101)
    /\ LET r == load_loop(0, OpX(opcode) - 1, reg_v, memory, reg_i)
       IN  Step(IF r.fault = "none" THEN reg_pc + 2 ELSE reg_pc, reg_sp, r.reg_i,
                reg_timer_delay, reg_timer_sound, r.reg_v, stack, memory, display,
                r.fault, << >>)

\* 0xFX65 (load vx)
OpFX65 ==
    /\ Decoded /\ MatchTNN(opcode, 15, 101)
    /\ LET r == load_loop(0, OpX(opcode), reg_v, memory, reg_i)
       IN  Step(IF r.fault = "none" THEN reg_pc + 2 ELSE reg_pc, reg_sp, r.reg_i,
                reg_timer_delay, reg_timer_sound, r.reg_v, stack, memory, display,
                r.fault, << >>)

\* the opcode matches one of the branches of the decoder
Known(op) ==
    \/ op = 224 \/ op = 238
    \/ OpTop(op) \in {1, 2, 3, 4, 6, 7, 10, 11, 12, 13}
    \/ (OpTop(op) \in {5, 9} /\ OpN(op) = 0)
    \/ (OpTop(op) = 8 /\ OpN(op) \in {0, 1, 2, 3, 4, 5, 6, 7, 14})
    \/ (OpTop(op) = 14 /\ OpNN(op) \in {158, 161})
    \/ (OpTop(op) = 15 /\ OpNN(op) \in {7, 10, 21, 24, 30, 41, 51, 85, 101})

\* (mutant) a word no branch matches is stepped over
OpUnknown_skip ==
    /\ Decoded /\ ~Known(opcode)
    /\ SetPc(reg_pc + 2)

\* the final else: panic!("Unknown opcode: {:#X}", opcode)
OpUnknown ==
    /\ Decoded /\ ~Known(opcode)
    /\ Panic("Unknown opcode")

cycle ==
    \/ FetchFault
    \/ Op00E0 \/ Op00EE \/ Op1NNN \/ Op2NNN \/ Op3XNN \/ Op4XNN \/ Op5XY0
    \/ Op6XNN \/ Op7XNN
    \/ Op8XY0 \/ Op8XY1 \/ Op8XY2 \/ Op8XY3 \/ Op8XY4 \/ Op8XY5 \/ Op8XY6
    \/ Op8XY7 \/ Op8XYE
    \/ Op9XY0 \/ OpANNN \/ OpBNNN \/ OpCXNN \/ OpDXYN \/ OpEX9E \/ OpEXA1
    \/ OpFX07 \/ OpFX0A \/ OpFX15 \/ OpFX18 \/ OpFX1E \/ OpFX29 \/ OpFX33
    \/ OpFX55 \/ OpFX65 \/ OpUnknown

(* ------------------------------------------------------------------ *)
(* ROMs the host loads                                                *)
(* ------------------------------------------------------------------ *)
\* the bytes of a sequence of instruction words, each word big endian
Asm(words) ==
    [k \in 1..(2 * Len(words)) |->
        IF k % 2 = 1 THEN words[(k + 1) \div 2] \div 256 ELSE words[k \div 2] % 256]

Ins(t, x, y, n) == t * 4096 + x * 256 + y * 16 + n
InsNN(t, x, nn) == t * 4096 + x * 256 + nn
InsNNN(t, nnn) == t * 4096 + nnn

\* deepest chain of nested calls tried (the stack holds STACK_SIZE)
MaxNest == 17
\* longest ROM tried (the program region holds PROG_END - PROG_START bytes)
MaxRomLen == 3234

\* register values tried by the arithmetic programs
ByteVals == {0, 1, 100, 155, 156, 255}
\* <<X, Y>> register pairs tried: distinct, equal, VF as destination, VF as source
RegPairs == { <<4, 5>>, <<4, 4>>, <<15, 4>>, <<4, 15>>, << 15, 15 >> }
\* low nibbles of the 8XYn instructions
AluOps == {0, 1, 2, 3, 4, 5, 6, 7, 14}

\* vx := a; vy := b; 8XYn
ArithProgs ==
    { << InsNN(6, p[1], a), InsNN(6, p[2], b), Ins(8, p[1], p[2], n) >> :
        p \in RegPairs, a \in ByteVals, b \in ByteVals, n \in AluOps }

\* a chain of d nested calls, each level returning to the one above:
\*   0x200 + 4j: call 0x200 + 4(j + 1)     0x202: jump 0x202
\*   0x202 + 4j: return (j > 0)            0x200 + 4d: return
NestProg(d) ==
    [k \in 1..(2 * d + 1) |->
        IF k = 2 * d + 1 THEN 238
        ELSE IF k % 2 = 1 THEN InsNNN(2, PROG_START + 2 * (k + 1))
        ELSE IF k = 2 THEN InsNNN(1, PROG_START + 2)
        ELSE 238]

CallProgs ==
    { NestProg(d) : d \in 1..MaxNest }
    \cup { << InsNNN(2, PROG_START) >>,      \* a subroutine that calls itself
           << 238 >>,                        \* return with nothing to return to
           << InsNNN(2, 568), 238 >> }       \* 0x2238: call into empty memory

\* sprite positions, heights and addresses tried by the draw programs
DrawXs == {0, 5, 57, 60, 63}
DrawYs == {0, 10, 27, 31, 32}
DrawNs == {0, 1, 5, 15}
\* <<first I, second I>>: the same glyph twice (digit 5), digit 1 then digit 0
DrawSprites == { <<25, 25>>, <<5, 0>> }

\* v4 := x; v5 := y; i := s1; draw; i := s2; draw; next instruction is 0x0000
DrawProgs ==
    { << InsNN(6, 4, x), InsNN(6, 5, y), InsNNN(10, s[1]), Ins(13, 4, 5, n),
         InsNNN(10, s[2]), Ins(13, 4, 5, n) >> :
        x \in DrawXs, y \in DrawYs, n \in DrawNs, s \in DrawSprites }
    \cup { << InsNNN(10, 4095), Ins(13, 0, 0, 2) >>,      \* sprite past memory
           << InsNN(6, 15, 5), InsNNN(10, 25), Ins(13, 15, 15, 5),
              Ins(13, 15, 15, 5) >> }                    \* position taken from VF

\* one short program for each remaining instruction
TourProgs ==
    { << InsNN(6, 4, 5), InsNNN(10, 25), Ins(13, 4, 4, 5), 224 >>,
      << InsNNN(1, 4095) >>,
      << InsNNN(1, PROG_START) >>,
      << InsNN(6, 0, 255), InsNNN(11, 4095) >>,
      << InsNN(6, 0, 4), InsNNN(11, PROG_START), InsNNN(1, PROG_START + 4) >>,
      << InsNN(6, 3, 100), InsNN(3, 3, 100), 0, InsNN(4, 3, 100), InsNN(4, 3, 1) >>,
      << InsNN(6, 3, 100), InsNN(3, 3, 1), Ins(5, 3, 3, 0), 0, Ins(5, 3, 4, 0),
         Ins(9, 3, 4, 0), 0, Ins(9, 3, 3, 0) >>,
      << InsNN(6, 3, 200), InsNN(7, 3, 100), InsNN(7, 15, 1) >>,
      << InsNN(12, 3, 15), InsNN(12, 4, 3) >>,
      << InsNN(6, 2, 10), InsNN(14, 2, 158), InsNN(14, 2, 161) >>,
      << InsNN(6, 2, 16), InsNN(14, 2, 158) >>,
      << InsNN(6, 2, 16), InsNN(14, 2, 161) >>,
      << InsNN(6, 4, 30), InsNN(15, 4, 21), InsNN(15, 4, 24), InsNN(15, 5, 7) >>,
      << InsNN(15, 4, 10) >>,
      << InsNNN(10, 4000), InsNN(6, 4, 255), InsNN(15, 4, 30), InsNN(15, 4, 51) >>,
      << InsNN(6, 4, 15), InsNN(15, 4, 41), InsNN(6, 4, 16), InsNN(15, 4, 41) >>,
      << InsNNN(10, 2000), InsNN(6, 4, 234), InsNN(15, 4, 51) >>,
      << InsNNN(10, 4094), InsNN(6, 4, 234), InsNN(15, 4, 51) >>,
      << InsNN(6, 0, 7), InsNN(6, 1, 8), InsNN(6, 2, 9), InsNNN(10, 2000),
         InsNN(15, 2, 85), InsNNN(10, 2001), InsNN(15, 1, 101) >>,
      << InsNN(6, 0, 7), InsNNN(10, 4095), InsNN(15, 1, 85) >>,
      << InsNNN(10, 4095), InsNN(15, 1, 101) >>,
      << InsNN(8, 0, 8) >>,
      << >> }

\* words no branch of the decoder matches: 0NNN other than 00E0 and 00EE,
\* 5XYn and 9XYn with n # 0, 8XYn with n in 8..D or F, EXnn and FXnn with
\* another low byte
UnknownWords ==
    { 1, 223, 225, 239, 3839, 4095 }                    \* 0x0001 .. 0x0FFF
    \cup { Ins(5, 1, 2, n) : n \in {1, 15} } \cup { Ins(9, 1, 2, n) : n \in {1, 15} }
    \cup { Ins(8, 1, 2, n) : n \in {8, 9, 10, 11, 12, 13, 15} }
    \cup { InsNN(14, 1, nn) : nn \in {0, 157, 159, 160, 162, 255} }
    \cup { InsNN(15, 1, nn) : nn \in {0, 6, 8, 11, 20, 23, 31, 40, 52, 84, 102, 255} }

\* v1 := 1; v2 := 2; the word
UnknownProgs == { << InsNN(6, 1, 1), InsNN(6, 2, 2), w >> : w \in UnknownWords }

\* programs that store into the sprite data: v0 := 7; i := 0; save v0   and
\* v4 := 234; i := 78; bcd v4
FontProgs ==
    { << InsNN(6, 0, 7), InsNNN(10, 0), InsNN(15, 0, 85) >>,
      << InsNN(6, 4, 234), InsNNN(10, 78), InsNN(15, 4, 51) >> }

\* i := 0; v4 := 128; then for ever: i += v4
IndexProgs ==
    { << InsNNN(10, 0), InsNN(6, 4, 128), InsNN(15, 4, 30), InsNNN(1, PROG_START + 4) >> }

\* v4 := d; i := hex v4
GlyphProgs ==
    { << InsNN(6, 4, d), InsNN(15, 4, 41) >> : d \in {0, 1, 12, 15, 16, 17, 255} }

\* v4 := v; i := a; bcd v4
BcdProgs ==
    { << InsNN(6, 4, v), InsNNN(10, a), InsNN(15, 4, 51) >> :
        v \in ByteVals \cup {9, 10, 99, 245}, a \in {757, 4093} }

\* save v0..vx; clear the registers; i := where it was; load v0..vx
TransferProgs ==
    { << InsNN(6, 0, 7), InsNN(6, 1, 8), InsNN(6, 2, 9), InsNN(6, 3, 10),
         InsNNN(10, 752), InsNN(15, 2, 85),
         InsNN(6, 0, 0), InsNN(6, 1, 0), InsNN(6, 2, 0),
         InsNNN(10, 752), InsNN(15, 2, 101) >>,
      << InsNN(6, 0, 245), InsNN(6, 7, 42), InsNN(6, 15, 19),
         InsNNN(10, 4080), InsNN(15, 15, 85),
         InsNN(6, 0, 1), InsNN(6, 7, 1), InsNN(6, 15, 1),
         InsNNN(10, 4080), InsNN(15, 15, 101) >>,
      << InsNNN(10, PROG_START), InsNN(15, 3, 101), InsNN(15, 0, 101) >> }

Programs ==
    ArithProgs \cup CallProgs \cup DrawProgs \cup TourProgs \cup UnknownProgs
    \cup FontProgs \cup IndexProgs \cup GlyphProgs \cup BcdProgs \cup TransferProgs

\* a ROM of n bytes that is no program, byte k being k mod 251
FillRom(n) == [k \in 1..n |-> (k - 1) % 251]

\* ROM sizes around the size of the program region
FillLens == {1, 2, 3, PROG_END - PROG_START - 1, PROG_END - PROG_START,
             PROG_END - PROG_START + 1, MaxRomLen}

Roms == { Asm(p) : p \in Programs } \cup { FillRom(n) : n \in FillLens }

\* ROMs the host offers to a machine that is already running
ReloadRoms == { FillRom(n) : n \in {0, PROG_END - PROG_START + 1} }

(* ------------------------------------------------------------------ *)
(* The host                                                           *)
(* ------------------------------------------------------------------ *)
\* main: the ROM is loaded into the fresh machine
Load ==
    /\ last.call = "new"
    /\ \E data \in Roms : load(data)

\* load is public and may be called again later, on a machine that has run
Reload ==
    /\ last.call # "new"
    /\ \E data \in ReloadRoms : load(data)

\* main's loop: emulator.cycle()
Cycle == cycle

Next == Load \/ Reload \/ Cycle

Spec == Init /\ [][Next]_vars

(* ------------------------------------------------------------------ *)
(* The host with its keyboard, tone and wall clock                    *)
(* ------------------------------------------------------------------ *)
\* keys the host presses
KeysTried == {2, 10}
\* timer values the timer programs set
TimerVals == {0, 1, 2, 30}

\* v4 := n; delay := v4; buzzer := v4; jump to self
TimerProgs ==
    { << InsNN(6, 4, n), InsNN(15, 4, 21), InsNN(15, 4, 24),
         InsNNN(1, PROG_START + 6) >> : n \in TimerVals }

\* v2 := k; skip if key v2; skip if not key v2   and   v4 := 5; v4 := key
KeyProgs ==
    { << InsNN(6, 2, k), InsNN(14, 2, 158), InsNN(14, 2, 161) >> : k \in KeysTried }
    \cup { << InsNN(6, 4, 5), InsNN(15, 4, 10) >> }

\* every instruction at least once, and the programs that use keys and timers
HostProgs ==
    TourProgs \cup TimerProgs \cup KeyProgs \cup { NestProg(1) }
    \cup { << InsNN(6, 4, 156), InsNN(6, 5, 100), Ins(8, 4, 5, n) >> : n \in AluOps }

HostRoms == { Asm(p) : p \in HostProgs }

\* a call of the host, or a pause of it, as the most recent event
Event(call, result, data) ==
    [call |-> call, result |-> result, data |-> data, opcode |-> -1,
     redraws |-> << >>]

\* (mutant) the tone plays until the sound timer reaches 0
should_play_sound_positive == reg_timer_sound > 0

\* Chip8::should_play_sound (main.rs l.72 calls it; the spec defines it)
should_play_sound == reg_timer_sound > 1

\* Chip8::clear_keyboard (main.rs l.80 calls it; the spec's "clear all keys")
clear_keyboard == [k \in 0..15 |-> FALSE]

\* Chip8::set_keyboard_key (main.rs l.112 calls it; the spec's setKey)
set_keyboard_key(index, value) == [keyboard EXCEPT ![index] = value]

LoadHost ==
    /\ last.call = "new"
    /\ \E data \in HostRoms : load(data)

\* main's loop, after the cycle: if emulator.should_play_sound() { .. }
ShouldPlaySound ==
    /\ fault = "none"
    /\ last.call = "cycle"
    /\ last' = Event("should_play_sound",
                     IF should_play_sound THEN "true" ELSE "false", << >>)
    /\ UNCHANGED << reg_pc, reg_sp, reg_i, reg_timer_delay, reg_timer_sound,
                    reg_v, stack, memory, keyboard, display, fault >>

\* main's loop, next: emulator.clear_keyboard()
ClearKeyboard ==
    /\ fault = "none"
    /\ last.call = "should_play_sound"
    /\ keyboard' = clear_keyboard
    /\ last' = Event("clear_keyboard", "Ok", << >>)
    /\ UNCHANGED << reg_pc, reg_sp, reg_i, reg_timer_delay, reg_timer_sound,
                    reg_v, stack, memory, display, fault >>

\* poll_for_keyboard_input: emulator.set_keyboard_key(index, true) for each
\* key event that arrives before the poll ends
SetKey ==
    /\ fault = "none"
    /\ last.call \in {"clear_keyboard", "set_keyboard_key"}
    /\ \E index \in KeysTried :
          /\ ~keyboard[index]
          /\ keyboard' = set_keyboard_key(index, TRUE)
          /\ last' = Event("set_keyboard_key", "Ok", << index >>)
    /\ UNCHANGED << reg_pc, reg_sp, reg_i, reg_timer_delay, reg_timer_sound,
                    reg_v, stack, memory, display, fault >>

\* at least 1/60 second of wall-clock time passes between two cycles
\* (thread::sleep in the timer test, several rounds of the poll in main)
Sleep ==
    /\ fault = "none"
    /\ last.call = "cycle"
    /\ last' = Event("sleep", "Ok", << >>)
    /\ UNCHANGED << reg_pc, reg_sp, reg_i, reg_timer_delay, reg_timer_sound,
                    reg_v, stack, memory, keyboard, display, fault >>

NextHost ==
    LoadHost \/ Reload \/ Cycle \/ ShouldPlaySound \/ ClearKeyboard \/ SetKey \/ Sleep

SpecHost == Init /\ [][NextHost]_vars

\* (mutant) the host runs the next cycle without clearing and polling first
MainCycle_repeats ==
    /\ last.call \in {"load", "cycle", "clear_keyboard", "set_keyboard_key"}
    /\ cycle

\* main's loop in its order: emulator.cycle() opens an iteration, so it
\* follows the load or the poll that closed the iteration before
MainCycle ==
    /\ last.call \in {"load", "clear_keyboard", "set_keyboard_key"}
    /\ cycle

NextMain == LoadHost \/ MainCycle \/ ShouldPlaySound \/ ClearKeyboard \/ SetKey

SpecMain == Init /\ [][NextMain]_vars

\* v4 := n; delay := v4; buzzer := v4; then for ever: v5 := 0; jump back
IdleProgs ==
    { << InsNN(6, 4, n), InsNN(15, 4, 21), InsNN(15, 4, 24), InsNN(6, 5, 0),
         InsNNN(1, PROG_START + 6) >> : n \in TimerVals }

\* the programs run against the clock: those of the host that draw no
\* sprite, one whose sprite has no rows, and the timer programs with a loop
\* of two instructions at their end
ClockProgs ==
    { p \in HostProgs \ TimerProgs : \A k \in 1..Len(p) : p[k] \div 4096 # 13 }
    \cup { << InsNN(6, 4, 5), InsNNN(10, 25), Ins(13, 4, 4, 0), 224 >> }
    \cup IdleProgs

LoadClock ==
    /\ last.call = "new"
    /\ \E data \in { Asm(p) : p \in ClockProgs } : load(data)

\* the driver of the timer test: cycles with pauses of 1/60 second between
NextClock == LoadClock \/ Cycle \/ Sleep

\* the driver keeps calling cycle and wall-clock time keeps passing
SpecClock == Init /\ [][NextClock]_vars /\ WF_vars(Cycle) /\ SF_vars(Sleep)

(* ------------------------------------------------------------------ *)
(* Properties                                                         *)
(* ------------------------------------------------------------------ *)
\* the step is a call of load (a load that changes nothing at all is a
\* stuttering step and needs no check)
LoadStep == fault = "none" /\ last'.call = "load"

\* the step is a call of cycle on a live machine
CycleStep == fault = "none" /\ last'.call = "cycle"

\* the addresses at which either memory holds a nonzero byte; two memories
\* agree everywhere when they agree on these
Touched == DOMAIN memory \cup DOMAIN memory'

\* C1: a ROM of n <= 3232 bytes is accepted; afterwards memory[0x200 + k] is
\* ROM byte k for every k < n, every memory byte outside [0x200, 0x200 + n)
\* is what it was, and registers, timers, stack, display and keyboard are
\* unchanged.
C1_LoadCopiesRom ==
    [][ (LoadStep /\ Len(last'.data) <= 3232) =>
          /\ last'.result = "Ok"
          /\ \A k \in 0..(Len(last'.data) - 1) :
                mem_get(memory', 512 + k) = last'.data[k + 1]
          /\ \A a \in Touched :
                (a < 512 \/ a >= 512 + Len(last'.data)) =>
                    mem_get(memory', a) = mem_get(memory, a)
          /\ UNCHANGED << reg_pc, reg_sp, reg_i, reg_timer_delay, reg_timer_sound,
                          reg_v, stack, display, keyboard, fault >> ]_vars

\* a ROM of exactly 3232 bytes has been loaded and its last byte (nonzero) is
\* the last byte of the program region
C1_Witness ==
    /\ last.call = "load" /\ last.result = "Ok"
    /\ Len(last.data) = 3232
    /\ last.data[3232] # 0
    /\ mem_get(memory, 512 + 3231) = last.data[3232]
    /\ mem_get(memory, 512 + 3232) = 0

\* C2: a ROM of more than 3232 bytes is refused with the error and nothing
\* of the machine changes, memory included.
C2_LoadRefusesLargeRom ==
    [][ (LoadStep /\ Len(last'.data) > 3232) =>
          /\ last'.result = "Err"
          /\ UNCHANGED << reg_pc, reg_sp, reg_i, reg_timer_delay, reg_timer_sound,
                          reg_v, stack, memory, display, keyboard, fault >> ]_vars

\* a ROM of 3233 bytes has just been refused by a machine that is inside a
\* subroutine, with a program in memory
C2_Witness ==
    /\ last.call = "load" /\ last.result = "Err"
    /\ Len(last.data) = 3233
    /\ reg_sp > 0
    /\ mem_get(memory, 512) # 0

\* the step is a cycle that fetched its instruction (both bytes in memory)
Fetched == CycleStep /\ reg_pc + 1 < 4096

\* C3: a call 2NNN at PC = p with stack pointer s < 16 sets PC = NNN, the
\* stack pointer to s + 1 and stack[s] = p, touching no other slot; a return
\* 00EE with stack pointer s + 1 > 0 sets PC to the address saved in slot s
\* plus 2 and the stack pointer to s, touching no slot.  So nested calls
\* return in last-in-first-out order, each 2 past its call, and the stack
\* pointer ends where it started.
C3_CallReturnRoundTrip ==
    [][ /\ (Fetched /\ opcode \div 4096 = 2 /\ reg_sp < 16) =>
              /\ fault' = "none"
              /\ reg_pc' = opcode % 4096
              /\ reg_sp' = reg_sp + 1
              /\ stack'[reg_sp] = reg_pc
              /\ \A k \in 0..15 : k # reg_sp => stack'[k] = stack[k]
        /\ (Fetched /\ opcode = 238 /\ reg_sp > 0) =>
              /\ fault' = "none"
              /\ reg_pc' = stack[reg_sp - 1] + 2
              /\ reg_sp' = reg_sp - 1
              /\ stack' = stack ]_vars

\* 16 nested calls have been made and all 16 have returned: the last return
\* came back to 0x202, 2 past the first call at 0x200, with the stack empty
\* again; slot 15 still shows the address of the 16th call
C3_Witness ==
    /\ last.call = "cycle" /\ last.opcode = 238 /\ fault = "none"
    /\ reg_sp = 0
    /\ stack[0] = 512
    /\ reg_pc = 512 + 2
    /\ stack[15] = 512 + 60

\* C4: a call with the stack pointer at 16 panics with stack overflow and a
\* return with the stack pointer at 0 panics with stack underflow; neither
\* modifies PC, the stack pointer or the stack.
C4_StackFaults ==
    [][ /\ (Fetched /\ opcode \div 4096 = 2 /\ reg_sp = 16) =>
              /\ fault' = "Stack overflow."
              /\ UNCHANGED << reg_pc, reg_sp, stack >>
        /\ (Fetched /\ opcode = 238 /\ reg_sp = 0) =>
              /\ fault' = "Stack underflow."
              /\ UNCHANGED << reg_pc, reg_sp, stack >> ]_vars

\* the 17th nested call has just been refused
C4_Witness ==
    /\ fault = "Stack overflow."
    /\ last.call = "cycle" /\ last.opcode \div 4096 = 2
    /\ reg_sp = 16
    /\ \A k \in 0..15 : stack[k] # 0

\* C5: in every reachable state the stack pointer is in 0..16.
C5_StackPointerRange == reg_sp \in 0..16

\* the stack is full: the 16th nested call has just been made
C5_Witness ==
    /\ reg_sp = 16
    /\ fault = "none"
    /\ last.call = "cycle" /\ last.opcode \div 4096 = 2

\* C6: 8XY4 with X other than F sets Vx to (Vx + Vy) mod 256, VF to 1 when
\* Vx + Vy > 255 and to 0 otherwise, and advances PC by 2.
C6_AddWithCarry ==
    [][ (Fetched /\ opcode \div 4096 = 8 /\ opcode % 16 = 4
                 /\ (opcode \div 256) % 16 # 15) =>
          LET x == (opcode \div 256) % 16
              y == (opcode \div 16) % 16
              sum == reg_v[x] + reg_v[y]
          IN  /\ fault' = "none"
              /\ reg_v'[x] = sum % 256
              /\ reg_v'[15] = (IF sum > 255 THEN 1 ELSE 0)
              /\ reg_pc' = reg_pc + 2 ]_vars

\* V4 = 255 plus V5 = 100 has given V4 = 99 with the carry in VF
C6_Witness ==
    /\ last.call = "cycle" /\ last.opcode = 8 * 4096 + 4 * 256 + 5 * 16 + 4
    /\ reg_v[5] = 100
    /\ reg_v[4] = 99
    /\ reg_v[15] = 1

\* C7: 8XY5 and 8XY7 with X other than F subtract with 8-bit wraparound
\* and set VF to 1 exactly when a borrow occurred: 8XY5 gives
\* Vx = (Vx - Vy) mod 256 with VF = 1 iff Vy > Vx, 8XY7 gives
\* Vx = (Vy - Vx) mod 256 with VF = 1 iff Vx > Vy.
C7_SubtractWithBorrow ==
    [][ (Fetched /\ opcode \div 4096 = 8 /\ opcode % 16 \in {5, 7}
                 /\ (opcode \div 256) % 16 # 15) =>
          LET x == (opcode \div 256) % 16
              y == (opcode \div 16) % 16
              minuend == IF opcode % 16 = 5 THEN reg_v[x] ELSE reg_v[y]
              subtrahend == IF opcode % 16 = 5 THEN reg_v[y] ELSE reg_v[x]
          IN  /\ fault' = "none"
              /\ reg_v'[x] = (minuend - subtrahend) % 256
              /\ reg_v'[15] = (IF subtrahend > minuend THEN 1 ELSE 0)
              /\ reg_pc' = reg_pc + 2 ]_vars

\* V4 = 100 minus V5 = 255 has given V4 = 101 with the borrow in VF
C7_Witness ==
    /\ last.call = "cycle" /\ last.opcode = 8 * 4096 + 4 * 256 + 5 * 16 + 5
    /\ reg_v[5] = 255
    /\ reg_v[4] = 101
    /\ reg_v[15] = 1

\* the step is a cycle that fetched a sprite-draw instruction DXYN
DrawStep == Fetched /\ opcode \div 4096 = 13

\* operands of the DXYN about to execute
DrawVx == reg_v[(opcode \div 256) % 16]
DrawVy == reg_v[(opcode \div 16) % 16]
DrawN == opcode % 16

\* the sprite bit of pixel (row, col): bit 7 - col of memory[I + row]
DrawBit(row, col) == (mem_get(memory, reg_i + row) \div Pow2(7 - col)) % 2 = 1

\* the display cell the code writes for pixel (row, col)
DrawCell(row, col) == 64 * (DrawVy + row) + DrawVx + col

\* the display cell of pixel (row, col) when coordinates wrap
WrappedCell(row, col) == 64 * ((DrawVy + row) % 32) + ((DrawVx + col) % 64)

DrawPixels == (0..(DrawN - 1)) \X (0..7)

\* VF after a draw says whether some cell of the sprite went from set to unset
CollisionFlag ==
    reg_v'[15] = (IF \E p \in DrawPixels :
                        /\ DrawCell(p[1], p[2]) \in display
                        /\ DrawCell(p[1], p[2]) \notin display'
                  THEN 1 ELSE 0)

SpriteCells == { DrawCell(p[1], p[2]) : p \in { q \in DrawPixels : DrawBit(q[1], q[2]) } }

C10_DrawWraps ==
    [][ DrawStep =>
          /\ fault' # "index out of bounds: display"
          /\ fault' = "none" =>
                \A cell \in (display \ display') \cup (display' \ display) :
                    \E p \in DrawPixels : cell = WrappedCell(p[1], p[2]) ]_vars

(* ------------------------------------------------------------------ *)
(* Timers, keys, clear screen, unknown words                          *)
(* ------------------------------------------------------------------ *)
\* a timer one tick later: one less, and 0 stays 0
Decayed(t) == IF t = 0 THEN 0 ELSE t - 1

\* the fetched instruction sets a timer itself (FX15, FX18)
SetsTimer == opcode \div 4096 = 15 /\ opcode % 256 \in {21, 24}

\* C11: on a step taken after at least 1/60 second has passed, the delay
\* timer and the sound timer are each one less than before (0 stays 0); on a
\* step taken sooner the clock changes neither timer.  Stated for the steps
\* that complete and whose instruction sets no timer itself.
C11_TimersDecay ==
    [][ (Fetched /\ fault' = "none" /\ ~SetsTimer) =>
          IF last.call = "sleep"
          THEN /\ reg_timer_delay' = Decayed(reg_timer_delay)
               /\ reg_timer_sound' = Decayed(reg_timer_sound)
          ELSE /\ reg_timer_delay' = reg_timer_delay
               /\ reg_timer_sound' = reg_timer_sound ]_vars

\* the fetched instruction is FX0A
WaitStep == Fetched /\ opcode \div 4096 = 15 /\ opcode % 256 = 10

\* the keys latched as pressed
Pressed == { k \in 0..15 : keyboard[k] }

\* C12: FX0A executed while no key is pressed does not fault and leaves PC,
\* the V registers, I, the stack, memory and the display as they were.
C12_WaitForKeyIdles ==
    [][ (WaitStep /\ Pressed = {}) =>
          /\ fault' = "none"
          /\ UNCHANGED << reg_pc, reg_v, reg_i, reg_sp, stack, memory, display >> ]_vars

\* C13: FX0A executed while some key is pressed sets Vx to the lowest pressed
\* key index and advances PC by 2, without a fault.
C13_WaitForKeyStores ==
    [][ (WaitStep /\ Pressed # {}) =>
          /\ fault' = "none"
          /\ reg_pc' = reg_pc + 2
          /\ reg_v' = [reg_v EXCEPT ![(opcode \div 256) % 16] =
                          CHOOSE k \in Pressed : \A j \in Pressed : k <= j] ]_vars

\* C14: 00E0 leaves every display cell unset and PC two further, and leaves
\* the V registers, I, the stack, the stack pointer, memory and the keyboard
\* as they were.
C14_ClearScreen ==
    [][ (Fetched /\ opcode = 224) =>
          /\ fault' = "none"
          /\ display' = {}
          /\ reg_pc' = reg_pc + 2
          /\ UNCHANGED << reg_v, reg_i, reg_sp, stack, memory, keyboard >> ]_vars

\* digit 5 drawn at (5, 5), then 00E0: the screen is blank again
C14_Witness ==
    /\ last.call = "cycle" /\ last.opcode = 224 /\ fault = "none"
    /\ mem_get(memory, 512 + 4) * 256 + mem_get(memory, 512 + 5) = 13 * 4096 + 4 * 256 + 4 * 16 + 5
    /\ reg_v[4] = 5 /\ reg_i = 25 /\ reg_v[15] = 0
    /\ reg_pc = 512 + 8
    /\ display = {}

\* the word is none of the defined instructions, as the claim lists them
Undefined(op) ==
    \/ op \div 4096 = 0 /\ op # 224 /\ op # 238
    \/ op \div 4096 \in {5, 9} /\ op % 16 # 0
    \/ op \div 4096 = 8 /\ op % 16 \in {8, 9, 10, 11, 12, 13, 15}
    \/ op \div 4096 = 14 /\ op % 256 \notin {158, 161}
    \/ op \div 4096 = 15 /\ op % 256 \notin {7, 10, 21, 24, 30, 41, 51, 85, 101}

\* C15: a fetched word that is none of the defined instructions stops the
\* machine with the unknown-opcode fault and changes nothing in the machine.
C15_UnknownOpcodeFaults ==
    [][ (Fetched /\ Undefined(opcode)) =>
          /\ fault' = "Unknown opcode"
          /\ UNCHANGED machine ]_vars

\* 0x812F fetched after v1 := 1 and v2 := 2
C15_Witness ==
    /\ last.call = "cycle" /\ last.result = "Panic"
    /\ last.opcode = 8 * 4096 + 1 * 256 + 2 * 16 + 15
    /\ fault = "Unknown opcode"
    /\ reg_pc = 512 + 4 /\ reg_v[1] = 1 /\ reg_v[2] = 2

(* ------------------------------------------------------------------ *)
(* Sound query, redraw callback, frames of display, keyboard and PC   *)
(* ------------------------------------------------------------------ *)
\* C16: should_play_sound() answers true exactly when the sound timer is
\* greater than 1 (false at 1 and at 0), and changes nothing in the machine.
C16_SoundQuery ==
    [][ last'.call = "should_play_sound" =>
          /\ last'.result \in {"true", "false"}
          /\ (last'.result = "true") <=> (reg_timer_sound > 1)
          /\ UNCHANGED machine ]_vars

\* the query answered false with the sound timer at 1
C16_Witness ==
    /\ last.call = "should_play_sound" /\ last.result = "false"
    /\ reg_timer_sound = 1

\* C17: a DXYN that completes hands the display to the redraw callback exactly
\* once, as the draw left it; no other instruction, no load and not the
\* construction hands it anything.
C17_RedrawOncePerDraw ==
    /\ last.redraws = << >>
    /\ [][ IF DrawStep /\ fault' = "none"
           THEN last'.redraws = << display' >>
           ELSE last'.redraws = << >> ]_vars

\* digit 5 drawn at (5, 10): the callback got the screen with the digit on it
C17_Witness ==
    /\ last.call = "cycle" /\ last.opcode = 13 * 4096 + 4 * 256 + 5 * 16 + 5
    /\ fault = "none"
    /\ reg_pc = 512 + 8 /\ reg_v[4] = 5 /\ reg_v[5] = 10 /\ reg_i = 25
    /\ Len(last.redraws) = 1
    /\ last.redraws[1] = display
    /\ 64 * 10 + 5 \in display

\* C18: a step that changes any display cell is a cycle that fetched DXYN or
\* 00E0; every other instruction and load leave the display as it was.
C18_DisplayWriters ==
    [][ display' # display =>
          Fetched /\ (opcode \div 4096 = 13 \/ opcode = 224) ]_vars

\* an empty ROM loaded into a machine that has drawn: the drawing is still there
C18_Witness ==
    /\ last.call = "load" /\ last.result = "Ok"
    /\ reg_pc > 512
    /\ display # {}

\* C19: the keyboard changes only in a set-key or clear-all-keys call of the
\* host: no cycle and no load changes it.
C19_KeyboardWriters ==
    [][ keyboard' # keyboard =>
          last'.call \in {"set_keyboard_key", "clear_keyboard"} ]_vars

\* EX9E found key 2 pressed and skipped; the key is still latched
C19_Witness ==
    /\ last.call = "cycle" /\ last.opcode = 14 * 4096 + 2 * 256 + 158
    /\ fault = "none"
    /\ reg_v[2] = 2 /\ keyboard[2]
    /\ reg_pc = 512 + 6

\* C20: while the machine has not faulted, PC and PC + 1 are addresses of
\* memory: PC <= 4094.
C20_PcInBounds == fault = "none" => reg_pc <= 4094

(* ------------------------------------------------------------------ *)
(* Memory bounds, the fresh machine, the font, faults, timer order    *)
(* ------------------------------------------------------------------ *)
\* the fetched instruction is FXnn with low byte nn
MemOp(nn) == Fetched /\ opcode \div 4096 = 15 /\ opcode % 256 = nn

\* the X field of the fetched instruction
FieldX == (opcode \div 256) % 16

\* C21: a fetch with PC or PC + 1 past 4095, and a DXYN, FX33, FX55 or FX65
\* whose last address I + k is past 4095, end in a fault; no byte outside
\* 0..4095 is ever held, a store that faults has written nothing below I, a
\* load that faults has read only the bytes at I + k <= 4095; and a fetch with
\* both bytes in range yields memory[PC] * 256 + memory[PC + 1].
C21_MemoryBounds ==
    [][ CycleStep =>
          /\ reg_pc + 1 >= 4096 => (fault' # "none" /\ UNCHANGED machine)
          /\ Fetched =>
                last'.opcode = mem_get(memory, reg_pc) * 256 + mem_get(memory, reg_pc + 1)
          /\ (DrawStep /\ DrawN > 0 /\ reg_i + DrawN - 1 > 4095) => fault' # "none"
          /\ (MemOp(51) /\ reg_i + 2 > 4095) => fault' # "none"
          /\ (MemOp(85) /\ reg_i + FieldX > 4095) => fault' # "none"
          /\ (MemOp(101) /\ reg_i + FieldX > 4095) => fault' # "none"
          /\ \A a \in Touched : a <= 4095
          /\ (MemOp(51) \/ MemOp(85)) =>
                \A a \in Touched :
                    mem_get(memory', a) # mem_get(memory, a) => a >= reg_i
          /\ MemOp(101) =>
                \A k \in 0..15 :
                    reg_v'[k] = (IF k <= FieldX /\ reg_i + k <= 4095
                                 THEN mem_get(memory, reg_i + k) ELSE reg_v[k]) ]_vars

\* F155 at I = 4095: V0 is stored in the last byte, the store of V1 faults,
\* and address 0 still holds the first font byte
C21_Witness ==
    /\ last.call = "cycle" /\ last.opcode = 15 * 4096 + 1 * 256 + 85
    /\ fault = "index out of bounds: memory"
    /\ reg_v[0] = 7 /\ mem_get(memory, 4095) = 7
    /\ mem_get(memory, 0) = 240
    /\ reg_i = 4096

\* C22: the machine as constructed: PC = 0x200, SP = 0, I = 0, the V
\* registers, timers and stack slots 0, no key pressed, the screen blank, the
\* glyph of digit d in the five bytes from 5 * d, every other byte 0.
C22_FreshMachine ==
    last.call = "new" =>
        /\ reg_pc = 512 /\ reg_sp = 0 /\ reg_i = 0
        /\ reg_timer_delay = 0 /\ reg_timer_sound = 0
        /\ DOMAIN reg_v = 0..15 /\ \A r \in 0..15 : reg_v[r] = 0
        /\ DOMAIN stack = 0..15 /\ \A k \in 0..15 : stack[k] = 0
        /\ DOMAIN keyboard = 0..15 /\ \A k \in 0..15 : ~keyboard[k]
        /\ display = {}
        /\ \A d \in 0..15 : \A r \in 0..4 :
              mem_get(memory, 5 * d + r) = ALL_SPRITE_DATA[5 * d + r + 1]
        /\ << mem_get(memory, 0), mem_get(memory, 1), mem_get(memory, 2),
              mem_get(memory, 3), mem_get(memory, 4) >> = << 240, 144, 144, 144, 240 >>
        /\ << mem_get(memory, 5), mem_get(memory, 6), mem_get(memory, 7),
              mem_get(memory, 8), mem_get(memory, 9) >> = << 32, 96, 32, 32, 112 >>
        /\ << mem_get(memory, 75), mem_get(memory, 76), mem_get(memory, 77),
              mem_get(memory, 78), mem_get(memory, 79) >> = << 240, 128, 240, 128, 128 >>
        /\ \A a \in DOMAIN memory : a \in 0..79

\* the machine just constructed, nothing loaded yet
C22_Witness ==
    /\ last.call = "new" /\ fault = "none"
    /\ reg_pc = 512
    /\ mem_get(memory, 79) = 128 /\ mem_get(memory, 80) = 0

\* some byte of 0x000-0x04F differs before and after the step
FontChanges == \E a \in 0..79 : mem_get(memory', a) # mem_get(memory, a)

\* C23 as claimed: in every reachable state the 80 bytes from address 0 are
\* the font.
C23_FontKept == \A a \in 0..79 : mem_get(memory, a) = ALL_SPRITE_DATA[a + 1]

\* C23 (amended): the 80 bytes from address 0 are the font after
\* construction; no load changes them, and the only instructions that change
\* them are FX33 and FX55 executed with I at or below 0x04F.
C23_FontWriters ==
    /\ C23_FontKept
    /\ [][ FontChanges => ((MemOp(51) \/ MemOp(85)) /\ reg_i <= 79) ]_vars

\* F055 at I = 0 has stored V0 = 7 over the first byte of the glyph of 0
C23_Witness ==
    /\ last.call = "cycle" /\ last.opcode = 15 * 4096 + 85
    /\ fault = "none"
    /\ reg_v[0] = 7 /\ mem_get(memory, 0) = 7 /\ reg_i = 1

\* C24 as claimed: a cycle that faults returns an error value to its caller.
C24_FaultsReturned ==
    [][ (CycleStep /\ fault' # "none") => last'.result = "Err" ]_vars

\* C24 (amended): a cycle that faults panics with the message of its fault
\* (fetch out of range, stack overflow, stack underflow, unknown opcode, key
\* number out of range, address out of range) and returns nothing; the
\* panic is not caught, so no call follows it.
C24_FaultsPanic ==
    /\ [][ fault = "none" ]_vars
    /\ [][ CycleStep =>
             /\ (fault' # "none") <=> (last'.result = "Panic")
             /\ (fault' = "none") <=> (last'.result = "Ok")
             /\ reg_pc + 1 >= 4096 =>
                   fault' \in {"The PC to not be OOB.", "The PC + 1 to not be OOB."}
             /\ (Fetched /\ opcode \div 4096 = 2 /\ reg_sp >= 16) =>
                   fault' = "Stack overflow."
             /\ (Fetched /\ opcode = 238 /\ reg_sp = 0) => fault' = "Stack underflow."
             /\ (Fetched /\ Undefined(opcode)) => fault' = "Unknown opcode"
             /\ (Fetched /\ opcode \div 4096 = 14 /\ opcode % 256 \in {158, 161}
                   /\ reg_v[FieldX] > 15) =>
                   fault' = "Keyboard index to be in bounds."
             /\ ((MemOp(51) /\ reg_i + 2 > 4095) \/ (MemOp(85) /\ reg_i + FieldX > 4095)) =>
                   fault' = "index out of bounds: memory"
             /\ (MemOp(101) /\ reg_i + FieldX > 4095) =>
                   fault' = "V index to be in bounds." ]_vars

\* E2A1 with V2 = 16: the cycle panicked on the key number
C24_Witness ==
    /\ last.call = "cycle" /\ last.result = "Panic"
    /\ last.opcode = 14 * 4096 + 2 * 256 + 161
    /\ reg_v[2] = 16
    /\ fault = "Keyboard index to be in bounds."

\* C25: on a step that follows a pause of 1/60 second, FX07 gives Vx the
\* delay timer already one less, and FX15 and FX18 leave their timer equal to
\* Vx.
C25_DecayBeforeDispatch ==
    [][ (Fetched /\ last.call = "sleep" /\ fault' = "none") =>
          /\ MemOp(7) => reg_v'[FieldX] = Decayed(reg_timer_delay)
          /\ MemOp(21) => reg_timer_delay' = reg_v[FieldX]
          /\ MemOp(24) => reg_timer_sound' = reg_v[FieldX] ]_vars

(* ------------------------------------------------------------------ *)
(* Program counter, skips, the drawn footprint, shifts, add immediate *)
(* ------------------------------------------------------------------ *)
\* the Y field and the operand fields of the fetched instruction
FieldY == (opcode \div 16) % 16
FieldNN == opcode % 256
FieldNNN == opcode % 4096

\* the fetched instruction is a comparison
SkipClass ==
    \/ opcode \div 4096 \in {3, 4}
    \/ opcode \div 4096 \in {5, 9} /\ opcode % 16 = 0
    \/ opcode \div 4096 = 14 /\ FieldNN \in {158, 161}

\* the condition under which the fetched comparison skips
SkipCondition ==
    CASE opcode \div 4096 = 3 -> reg_v[FieldX] = FieldNN
      [] opcode \div 4096 = 4 -> reg_v[FieldX] # FieldNN
      [] opcode \div 4096 = 5 -> reg_v[FieldX] = reg_v[FieldY]
      [] opcode \div 4096 = 9 -> reg_v[FieldX] # reg_v[FieldY]
      [] opcode \div 4096 = 14 /\ FieldNN = 158 -> keyboard[reg_v[FieldX]]
      [] OTHER -> ~keyboard[reg_v[FieldX]]

\* C26: an instruction that executes without a fault leaves PC as its class
\* says: 1NNN and 2NNN at NNN, BNNN at NNN + V0 (the plain sum), 00EE at the
\* popped address plus 2, a comparison 2 or 4 further, FX0A where it was or 2
\* further, every other instruction exactly 2 further.
C26_PcByClass ==
    [][ (Fetched /\ fault' = "none") =>
          IF opcode \div 4096 \in {1, 2} THEN reg_pc' = FieldNNN
          ELSE IF opcode \div 4096 = 11 THEN reg_pc' = FieldNNN + reg_v[0]
          ELSE IF opcode = 238 THEN reg_pc' = stack[reg_sp - 1] + 2
          ELSE IF SkipClass THEN reg_pc' \in {reg_pc + 2, reg_pc + 4}
          ELSE IF MemOp(10) THEN reg_pc' \in {reg_pc, reg_pc + 2}
          ELSE reg_pc' = reg_pc + 2 ]_vars

\* BFFF with V0 = 255 has left PC at 4095 + 255, past the end of memory
C26_Witness ==
    /\ last.call = "cycle" /\ last.opcode = 11 * 4096 + 4095
    /\ fault = "none"
    /\ reg_v[0] = 255
    /\ reg_pc = 4350

\* C27: a comparison (a key comparison with Vx <= 15) executes without a
\* fault, moves PC 4 further when its condition holds and 2 further when it
\* does not, and changes nothing else.
C27_Skips ==
    [][ (Fetched /\ SkipClass /\ (opcode \div 4096 = 14 => reg_v[FieldX] <= 15)) =>
          /\ fault' = "none"
          /\ reg_pc' = reg_pc + (IF SkipCondition THEN 4 ELSE 2)
          /\ UNCHANGED << reg_sp, reg_i, reg_timer_delay, reg_timer_sound, reg_v,
                          stack, memory, keyboard, display >> ]_vars

\* E2A1 at 0x204 with V2 = 2 and key 2 held down: no skip, PC = 0x206
C27_Witness ==
    /\ last.call = "cycle" /\ last.opcode = 14 * 4096 + 2 * 256 + 161
    /\ fault = "none"
    /\ reg_v[2] = 2 /\ keyboard[2]
    /\ reg_pc = 518

\* the cells the glyph of digit d sets when drawn at (DrawVx, DrawVy)
GlyphCells(d) ==
    { 64 * (DrawVy + r) + DrawVx + c : r \in 0..4, c \in 0..7 } \cap
    { 64 * (DrawVy + q[1]) + DrawVx + q[2] :
        q \in { t \in (0..4) \X (0..7) :
                  (ALL_SPRITE_DATA[5 * d + t[1] + 1] \div Pow2(7 - t[2])) % 2 = 1 } }

\* C28: after a DXYN that completes, each cell of the 8 x N rectangle at
\* (Vx, Vy) that is on the screen equals its sprite bit, and no cell outside
\* that rectangle (taken with wrapped coordinates) has changed; the digit 0
\* drawn where only the digit 1 was on screen leaves exactly the digit 0,
\* with VF = 1.
C28_DrawFootprint ==
    [][ (DrawStep /\ fault' = "none") =>
          /\ \A p \in DrawPixels :
                (DrawVx + p[2] < 64 /\ DrawVy + p[1] < 32) =>
                    ((WrappedCell(p[1], p[2]) \in display') = DrawBit(p[1], p[2]))
          /\ \A cell \in 0..2047 :
                (cell \in display') # (cell \in display) =>
                    cell \in { WrappedCell(p[1], p[2]) : p \in DrawPixels }
          /\ (/\ reg_i = 0 /\ DrawN = 5 /\ DrawVx + 7 < 64 /\ DrawVy + 4 < 32
              /\ \A r \in 0..4 : mem_get(memory, r) = ALL_SPRITE_DATA[r + 1]
              /\ display = GlyphCells(1)) =>
                (display' = GlyphCells(0) /\ reg_v'[15] = 1) ]_vars

\* C29: for X other than F, 8XY6 sets Vx to Vy >> 1 and VF to Vy mod 2, and
\* 8XYE sets Vx to (Vy << 1) mod 256 and VF to Vy & 0x80 (0 or 128); no
\* other register changes, so Vy keeps its value unless Y is X or F.
C29_ShiftsFromVy ==
    [][ (Fetched /\ opcode \div 4096 = 8 /\ FieldX # 15) =>
          /\ opcode % 16 = 6 =>
                /\ fault' = "none"
                /\ reg_v' = [reg_v EXCEPT ![FieldX] = reg_v[FieldY] \div 2,
                                          ![15] = reg_v[FieldY] % 2]
          /\ opcode % 16 = 14 =>
                /\ fault' = "none"
                /\ reg_v' = [reg_v EXCEPT ![FieldX] = (reg_v[FieldY] * 2) % 256,
                                          ![15] = (reg_v[FieldY] \div 128) * 128] ]_vars

\* 845E with V5 = 155: V4 = 310 - 256, VF = 128, V5 as it was
C29_Witness ==
    /\ last.call = "cycle" /\ last.opcode = 8 * 4096 + 4 * 256 + 5 * 16 + 14
    /\ fault = "none"
    /\ reg_v[5] = 155 /\ reg_v[4] = 54 /\ reg_v[15] = 128

\* C30: for X other than F, 7XNN sets Vx to (Vx + NN) mod 256 and changes no
\* other register, VF included, whether or not the sum passes 255.
C30_AddImmediateWraps ==
    [][ (Fetched /\ opcode \div 4096 = 7 /\ FieldX # 15) =>
          /\ fault' = "none"
          /\ reg_v' = [reg_v EXCEPT ![FieldX] = (reg_v[FieldX] + FieldNN) % 256]
          /\ reg_pc' = reg_pc + 2 ]_vars

\* 7364 with V3 = 200: V3 = 300 - 256 and VF still 0
C30_Witness ==
    /\ last.call = "cycle" /\ last.opcode = 7 * 4096 + 3 * 256 + 100
    /\ fault = "none"
    /\ reg_v[3] = 44 /\ reg_v[15] = 0

(* ------------------------------------------------------------------ *)
(* Index register, glyph address, decimal digits, register transfers  *)
(* ------------------------------------------------------------------ *)
\* every memory byte other than those at the addresses of skip is as it was
MemorySameExcept(skip) ==
    \A a \in Touched \ skip : mem_get(memory', a) = mem_get(memory, a)

\* C31: FX1E never faults and leaves I = I + Vx, whatever I and Vx are, and
\* PC 2 further; nothing else changes.
C31_AddToIndex ==
    [][ MemOp(30) =>
          /\ fault' = "none"
          /\ reg_i' = reg_i + reg_v[FieldX]
          /\ reg_pc' = reg_pc + 2
          /\ UNCHANGED << reg_sp, reg_timer_delay, reg_timer_sound, reg_v, stack,
                          memory, keyboard, display >> ]_vars

\* C32: FX29 with Vx <= 15 sets I = 5 * Vx, keeps every register and moves PC
\* 2 further; with Vx > 15 it faults and changes nothing, I and PC included.
C32_GlyphAddress ==
    [][ MemOp(41) =>
          IF reg_v[FieldX] <= 15
          THEN /\ fault' = "none"
               /\ reg_i' = 5 * reg_v[FieldX]
               /\ reg_pc' = reg_pc + 2
               /\ UNCHANGED << reg_sp, reg_timer_delay, reg_timer_sound, reg_v,
                               stack, memory, keyboard, display >>
          ELSE /\ fault' = "Vx to be within the range 0-15."
               /\ UNCHANGED machine ]_vars

\* F429 with V4 = 16 after F429 with V4 = 15: the fault, I still 75
C32_Witness ==
    /\ last.call = "cycle" /\ last.opcode = 15 * 4096 + 4 * 256 + 41
    /\ fault = "Vx to be within the range 0-15."
    /\ reg_v[4] = 16
    /\ reg_i = 75 /\ reg_pc = 518

\* C33: FX33 with I <= 4093 leaves in memory[I], memory[I + 1], memory[I + 2]
\* three digits h, t, o in 0..9 with 100 h + 10 t + o = Vx, and changes no
\* other byte, no register and not I.
C33_Bcd ==
    [][ (MemOp(51) /\ reg_i <= 4093) =>
          /\ fault' = "none"
          /\ LET h == mem_get(memory', reg_i)
                 t == mem_get(memory', reg_i + 1)
                 o == mem_get(memory', reg_i + 2)
             IN  /\ h \in 0..9 /\ t \in 0..9 /\ o \in 0..9
                 /\ 100 * h + 10 * t + o = reg_v[FieldX]
          /\ MemorySameExcept({reg_i, reg_i + 1, reg_i + 2})
          /\ reg_i' = reg_i /\ reg_v' = reg_v
          /\ reg_pc' = reg_pc + 2 ]_vars

\* F433 with V4 = 245 at I = 4093: the last three bytes hold 2, 4, 5
C33_Witness ==
    /\ last.call = "cycle" /\ last.opcode = 15 * 4096 + 4 * 256 + 51
    /\ fault = "none"
    /\ reg_v[4] = 245 /\ reg_i = 4093
    /\ mem_get(memory, 4093) = 2 /\ mem_get(memory, 4094) = 4
    /\ mem_get(memory, 4095) = 5

\* C34: FX55 with I + X <= 4095 leaves memory[I + k] = Vk for k in 0..X,
\* changes no other byte and no register, and leaves I = I + X + 1.
C34_SaveRegisters ==
    [][ (MemOp(85) /\ reg_i + FieldX <= 4095) =>
          /\ fault' = "none"
          /\ \A k \in 0..FieldX : mem_get(memory', reg_i + k) = reg_v[k]
          /\ MemorySameExcept({ reg_i + k : k \in 0..FieldX })
          /\ reg_v' = reg_v
          /\ reg_i' = reg_i + FieldX + 1
          /\ reg_pc' = reg_pc + 2 ]_vars

\* FF55 at I = 4080 with V0 = 245, V7 = 42, VF = 19: the last 16 bytes hold
\* the registers, I is one past the end of memory
C34_Witness ==
    /\ last.call = "cycle" /\ last.opcode = 15 * 4096 + 15 * 256 + 85
    /\ fault = "none"
    /\ reg_v[0] = 245 /\ reg_v[7] = 42 /\ reg_v[15] = 19
    /\ mem_get(memory, 4080) = 245 /\ mem_get(memory, 4087) = 42
    /\ mem_get(memory, 4095) = 19 /\ mem_get(memory, 4081) = 0
    /\ reg_i = 4096

\* saving V0..VX at I, then loading V0..VX from the same I into cleared
\* registers, gives back the registers saved and the I the save gave
RoundTrip(x) ==
    LET saved == save_loop(0, x, reg_v, memory, reg_i)
        loaded == load_loop(0, x, [r \in 0..15 |-> 0], saved.memory, reg_i)
    IN  /\ saved.fault = "none" /\ loaded.fault = "none"
        /\ \A k \in 0..x : loaded.reg_v[k] = reg_v[k]
        /\ loaded.reg_i = saved.reg_i

\* C35: FX65 with I + X <= 4095 leaves Vk = memory[I + k] for k in 0..X,
\* keeps the registers above VX and all memory, and leaves I = I + X + 1 as
\* FX55 does; and a save followed by a load from the same I with the same X
\* gives back V0..VX.
C35_LoadInvertsSave ==
    /\ [][ (MemOp(101) /\ reg_i + FieldX <= 4095) =>
             /\ fault' = "none"
             /\ \A k \in 0..15 :
                   reg_v'[k] = (IF k <= FieldX THEN mem_get(memory, reg_i + k)
                                ELSE reg_v[k])
             /\ memory' = memory
             /\ reg_i' = reg_i + FieldX + 1
             /\ reg_pc' = reg_pc + 2 ]_vars
    /\ [](\A x \in 0..15 : reg_i + x <= 4095 => RoundTrip(x))

\* FF65 at I = 4080 after the registers were saved there and then set to 1:
\* V0, V7 and VF are back, and so are the zeros between them
C35_Witness ==
    /\ last.call = "cycle" /\ last.opcode = 15 * 4096 + 15 * 256 + 101
    /\ fault = "none"
    /\ reg_v[0] = 245 /\ reg_v[7] = 42 /\ reg_v[15] = 19 /\ reg_v[1] = 0
    /\ mem_get(memory, 4080) = 245
    /\ reg_i = 4096

(* ------------------------------------------------------------------ *)
(* Key numbers out of range, VF as a destination                      *)
(* ------------------------------------------------------------------ *)
\* C36: EX9E and EXA1 with Vx > 15 fault on the key number, whatever key
\* Vx mod 16 names, and change nothing in the machine, PC included.
C36_KeyIndexFaults ==
    [][ (Fetched /\ opcode \div 4096 = 14 /\ FieldNN \in {158, 161}
                 /\ reg_v[FieldX] > 15) =>
          /\ fault' = "Keyboard index to be in bounds."
          /\ last'.result = "Panic"
          /\ UNCHANGED machine ]_vars

\* E29E at 0x202 with V2 = 16: the fault, PC still 0x202
C36_Witness ==
    /\ last.call = "cycle" /\ last.opcode = 14 * 4096 + 2 * 256 + 158
    /\ fault = "Keyboard index to be in bounds."
    /\ reg_v[2] = 16
    /\ reg_pc = 514

\* the flag of the fetched 8FYn, from the operands as they were before it
FlagOf8FYn ==
    CASE opcode % 16 = 4 -> IF reg_v[15] + reg_v[FieldY] > 255 THEN 1 ELSE 0
      [] opcode % 16 = 5 -> IF reg_v[FieldY] > reg_v[15] THEN 1 ELSE 0
      [] opcode % 16 = 7 -> IF reg_v[15] > reg_v[FieldY] THEN 1 ELSE 0
      [] opcode % 16 = 6 -> reg_v[FieldY] % 2
      [] OTHER -> (reg_v[FieldY] \div 128) * 128

\* C37: 8FY4, 8FY5, 8FY7, 8FY6 and 8FYE leave in VF the carry, borrow or
\* shifted-out flag, not the result, and change no other register.
C37_FlagOverResult ==
    [][ (Fetched /\ opcode \div 4096 = 8 /\ FieldX = 15
                 /\ opcode % 16 \in {4, 5, 6, 7, 14}) =>
          /\ fault' = "none"
          /\ reg_v' = [reg_v EXCEPT ![15] = FlagOf8FYn]
          /\ reg_pc' = reg_pc + 2 ]_vars

\* 8F44 with V4 = 100 and a carry: VF holds the flag 1, where the sum
\* modulo 256 would have been 0 or 99
C37_Witness ==
    /\ last.call = "cycle" /\ last.opcode = 8 * 4096 + 15 * 256 + 4 * 16 + 4
    /\ fault = "none"
    /\ reg_v[4] = 100 /\ reg_v[15] = 1

(* ------------------------------------------------------------------ *)
(* The host loop and its key latch                                    *)
(* ------------------------------------------------------------------ *)
\* no key is latched
NoKeyPressed == \A k \in 0..15 : ~keyboard[k]

\* C38: an iteration of the host loop is one cycle, then the sound query,
\* then a clear of every key, then the poll, which only sets keys.  So a
\* cycle always follows the load or a poll and never another cycle: the keys
\* it sees are those set since the clear just before, and they are cleared
\* before the next cycle.
C38_LatchPerCycle ==
    /\ [][ /\ CycleStep =>
                 /\ last.call \in {"load", "clear_keyboard", "set_keyboard_key"}
                 /\ keyboard' = keyboard
           /\ last'.call = "should_play_sound" =>
                 /\ last.call = "cycle"
                 /\ keyboard' = keyboard
           /\ last'.call = "clear_keyboard" =>
                 /\ last.call = "should_play_sound"
                 /\ \A k \in 0..15 : ~keyboard'[k]
           /\ last'.call = "set_keyboard_key" =>
                 /\ last.call \in {"clear_keyboard", "set_keyboard_key"}
                 /\ keyboard' = [keyboard EXCEPT ![last'.data[1]] = TRUE] ]_vars
    /\ [](last.call \in {"new", "load", "clear_keyboard"} => NoKeyPressed)

\* key 2, pressed during a poll, made the key test at 0x202 or 0x204 end at
\* 0x206; the host has cleared it again before the next cycle
C38_Witness ==
    /\ last.call = "clear_keyboard"
    /\ fault = "none"
    /\ reg_v[2] = 2 /\ reg_pc = 518
    /\ NoKeyPressed

\* the instruction word at address a
WordAt(a) == mem_get(memory, a) * 256 + mem_get(memory, a + 1)

\* the program executes no FX15 and no FX18 from here on: the instruction at
\* PC is a jump to itself, or PC is in a loop of a register load 6XNN and the
\* jump back to it
Idles ==
    /\ fault = "none"
    /\ reg_pc + 3 < 4096 /\ reg_pc >= 2
    /\ \/ WordAt(reg_pc) = 4096 + reg_pc
       \/ WordAt(reg_pc) \div 4096 = 6 /\ WordAt(reg_pc + 2) = 4096 + reg_pc
       \/ WordAt(reg_pc) = 4096 + reg_pc - 2 /\ WordAt(reg_pc - 2) \div 4096 = 6

\* C40: once the program sets no timer again, with cycles and pauses of
\* 1/60 second going on for ever, both timers reach 0 and stay there.
C40_TimersRunOut ==
    Idles ~> [](reg_timer_delay = 0 /\ reg_timer_sound = 0)

\* C39: a cycle that faults leaves every field of the machine as it was
\* before the cycle.
C39_FaultsChangeNothing ==
    [][ (CycleStep /\ fault' # "none") => UNCHANGED machine ]_vars

====
